---- MODULE Spec2Model ----
(***************************************************************************)
(* Model of the timetracker command line tool (src/src/main.rs) and of its *)
(* record types (src/src/lib.rs).                                          *)
(*                                                                         *)
(* A file is a sequence of characters.  The characters that matter to the  *)
(* code are the space (split_once(' ')), the newline (BufRead::lines,      *)
(* writeln!, join("\n")); a whole RFC 3339 timestamp, which contains       *)
(* neither, is one character of the model ("T0" is the timestamp of second *)
(* 0).  The clock counts ticks finer than a second, because Utc::now() is  *)
(* finer than the seconds the serialization keeps.                         *)
(***************************************************************************)
EXTENDS Integers, Sequences, FiniteSets, TLC

\* ---------------------------------------------------------------- bounds
MaxClock == 2          \* the clock stops advancing at this tick
TicksPerSec == 2       \* clock ticks in one second
MaxRunningLen == 15    \* start is not issued when the running file would grow past this
MaxEntries == 2        \* stop is not issued when the entries file holds this many lines
MaxStopLines == 3      \* the longest running file SpecStop starts from, in lines
MaxParseTick == 3      \* the latest timestamp of the records SpecParse serializes
MaxLineLen == 5        \* the longest line SpecParse parses, in characters

\* ------------------------------------------------------------ characters
SP == " "
NL == "\n"

\* The account arguments given on the command line.
Accounts == { <<"a">>, <<"b">> }

\* Option<T>: None is the empty sequence, Some(x) is <<x>>.
None == <<>>
Some(x) == <<x>>

\* The RFC 3339 text (seconds precision, "Z") of second i-1 is TsTokens[i].
TsTokens == <<"T0", "T1", "T2", "T3", "T4", "T5", "T6", "T7">>
\* The "%Y-%m-%d" and "%H:%M:%S%z" texts of second i-1.
DateTokens == <<"D0", "D1", "D2", "D3", "D4", "D5", "D6", "D7">>
TimeTokens == <<"H0", "H1", "H2", "H3", "H4", "H5", "H6", "H7">>

\* ------------------------------------------------------ string functions
\* The index of the first c in s, 0 when there is none.
IndexOf(s, c) ==
    IF \E i \in 1..Len(s) : s[i] = c
    THEN CHOOSE i \in 1..Len(s) : s[i] = c /\ \A j \in 1..(i - 1) : s[j] # c
    ELSE 0

\* str::rsplit_once in the place of split_once: around the last c.
RSplitOnce(s, c) ==
    IF \A i \in 1..Len(s) : s[i] # c THEN None
    ELSE LET i == CHOOSE k \in 1..Len(s) : s[k] = c /\ \A j \in (k + 1)..Len(s) : s[j] # c
         IN  Some(<<SubSeq(s, 1, i - 1), SubSeq(s, i + 1, Len(s))>>)

\* str::split_once: None, or Some(<<before, after>>) around the first c.
SplitOnce(s, c) ==
    LET i == IndexOf(s, c)
    IN  IF i = 0 THEN None
        ELSE Some(<<SubSeq(s, 1, i - 1), SubSeq(s, i + 1, Len(s))>>)

\* BufRead::lines: the text between newlines; a last line that does not end
\* in a newline is a line as well, an empty rest is not.
RECURSIVE Lines(_)
Lines(s) ==
    IF s = <<>> THEN <<>>
    ELSE LET i == IndexOf(s, NL)
         IN  IF i = 0 THEN <<s>>
             ELSE <<SubSeq(s, 1, i - 1)>> \o Lines(SubSeq(s, i + 1, Len(s)))

\* [String]::join(sep).
RECURSIVE Join(_, _)
Join(strs, sep) ==
    IF strs = <<>> THEN <<>>
    ELSE IF Len(strs) = 1 THEN strs[1]
    ELSE strs[1] \o <<sep>> \o Join(Tail(strs), sep)

\* Vec::swap_remove(i) in the place of Vec::remove(i): the last element takes
\* the place of the removed one.
SwapRemove(s, i) ==
    IF i = Len(s) THEN SubSeq(s, 1, i - 1)
    ELSE SubSeq(s, 1, i - 1) \o <<s[Len(s)]>> \o SubSeq(s, i + 1, Len(s) - 1)

\* Vec::remove(i) leaves the other elements in their order.
RemoveAt(s, i) == SubSeq(s, 1, i - 1) \o SubSeq(s, i + 1, Len(s))

\* ------------------------------------------------------------ timestamps
\* DateTime::to_rfc3339_opts(SecondsFormat::Secs, true): the sub-second part
\* of the tick is dropped.
ToRfc3339(t) == <<TsTokens[(t \div TicksPerSec) + 1]>>

\* DateTime::from_str: the text must be exactly one timestamp.
DateTimeFromStr(s) ==
    IF Len(s) = 1 /\ \E i \in 1..Len(TsTokens) : TsTokens[i] = s[1]
    THEN [ok |-> TRUE,
          val |-> ((CHOOSE i \in 1..Len(TsTokens) : TsTokens[i] = s[1]) - 1) * TicksPerSec]
    ELSE [ok |-> FALSE, val |-> 0]

\* DateTime::format("%Y-%m-%d %H:%M:%S%z"): the date, a space, the time.
FormatDatetime(t) ==
    <<DateTokens[(t \div TicksPerSec) + 1], SP, TimeTokens[(t \div TicksPerSec) + 1]>>

\* ---------------------------------------------------------- RunningEntry
RunningEntry(start, account) ==
    [start |-> start, account |-> account, description |-> None]

\* impl Display for RunningEntry
RunningEntryDisplay(e) == ToRfc3339(e.start) \o <<SP>> \o e.account

\* impl FromStr for RunningEntry
RunningEntryFromStr(s) ==
    LET sp == SplitOnce(s, SP)
    IN  IF sp = None
        THEN [ok |-> FALSE, err |-> "MissingStart", val |-> RunningEntry(0, <<>>)]
        ELSE LET start == DateTimeFromStr(sp[1][1])
             IN  IF ~start.ok
                 THEN [ok |-> FALSE, err |-> "DateParseError", val |-> RunningEntry(0, <<>>)]
                 ELSE [ok |-> TRUE, err |-> "", val |-> RunningEntry(start.val, sp[1][2])]

\* ----------------------------------------------------------------- Entry
Entry(start, stop, account, description) ==
    [start |-> start, stop |-> stop, account |-> account, description |-> description]

\* The serialization that joins start and stop with a hyphen.
EntryDisplayHyphen(e) ==
    ToRfc3339(e.start) \o <<"-">> \o ToRfc3339(e.stop) \o <<SP>> \o e.account

\* impl Display for Entry
EntryDisplay(e) ==
    ToRfc3339(e.start) \o <<SP>> \o ToRfc3339(e.stop) \o <<SP>> \o e.account

\* The parser with each timestamp parsed as soon as it is split off, so a bad
\* start is reported before a missing stop.
EntryFromStrEager(s) ==
    LET sp1 == SplitOnce(s, SP)
    IN  IF sp1 = None
        THEN [ok |-> FALSE, err |-> "MissingStart", val |-> Entry(0, 0, <<>>, None)]
        ELSE IF ~DateTimeFromStr(sp1[1][1]).ok
        THEN [ok |-> FALSE, err |-> "DateParseError", val |-> Entry(0, 0, <<>>, None)]
        ELSE LET sp2 == SplitOnce(sp1[1][2], SP)
             IN  IF sp2 = None
                 THEN [ok |-> FALSE, err |-> "MissingStop", val |-> Entry(0, 0, <<>>, None)]
                 ELSE IF ~DateTimeFromStr(sp2[1][1]).ok
                 THEN [ok |-> FALSE, err |-> "DateParseError",
                       val |-> Entry(0, 0, <<>>, None)]
                 ELSE [ok |-> TRUE, err |-> "",
                       val |-> Entry(DateTimeFromStr(sp1[1][1]).val,
                                     DateTimeFromStr(sp2[1][1]).val, sp2[1][2], None)]

\* impl FromStr for Entry
EntryFromStr(s) ==
    LET sp1 == SplitOnce(s, SP)
    IN  IF sp1 = None
        THEN [ok |-> FALSE, err |-> "MissingStart", val |-> Entry(0, 0, <<>>, None)]
        ELSE LET sp2 == SplitOnce(sp1[1][2], SP)
             IN  IF sp2 = None
                 THEN [ok |-> FALSE, err |-> "MissingStop", val |-> Entry(0, 0, <<>>, None)]
                 ELSE LET start == DateTimeFromStr(sp1[1][1])
                          stop == DateTimeFromStr(sp2[1][1])
                      IN  IF ~start.ok \/ ~stop.ok
                          THEN [ok |-> FALSE, err |-> "DateParseError",
                                val |-> Entry(0, 0, <<>>, None)]
                          ELSE [ok |-> TRUE, err |-> "",
                                val |-> Entry(start.val, stop.val, sp2[1][2], None)]

\* Entry::format_as_timeclock
FormatAsTimeclock(e) ==
    <<"i", SP>> \o FormatDatetime(e.start) \o <<SP>> \o e.account
        \o <<NL, "o", SP>> \o FormatDatetime(e.stop)

\* ----------------------------------------------------------------- files
\* A path holds no file, or a file with its content.
Absent == [exists |-> FALSE, data |-> <<>>]
File(data) == [exists |-> TRUE, data |-> data]

\* The same without append(true): the line replaces the content.
TruncateLine(f, line) == File(line \o <<NL>>)

\* OpenOptions::new().create(true).append(true) followed by writeln!: the
\* line and a newline go after whatever the file ends with.
AppendLine(f, line) == File(f.data \o line \o <<NL>>)

\* fs::write: the file holds exactly the text.
FsWrite(text) == File(text)

\* .map(RunningEntry::from_str).map(unwrap).collect(): the entries of all the
\* lines, or the panic of the first line that does not parse.
RECURSIVE CollectRunning(_)
CollectRunning(lines) ==
    IF lines = <<>> THEN [ok |-> TRUE, val |-> <<>>]
    ELSE LET r == RunningEntryFromStr(lines[1])
         IN  IF ~r.ok THEN [ok |-> FALSE, val |-> <<>>]
             ELSE LET rest == CollectRunning(Tail(lines))
                  IN  IF ~rest.ok THEN rest
                      ELSE [ok |-> TRUE, val |-> <<r.val>> \o rest.val]

\* The same for the entries file.
RECURSIVE CollectEntries(_)
CollectEntries(lines) ==
    IF lines = <<>> THEN [ok |-> TRUE, val |-> <<>>]
    ELSE LET r == EntryFromStr(lines[1])
         IN  IF ~r.ok THEN [ok |-> FALSE, val |-> <<>>]
             ELSE LET rest == CollectEntries(Tail(lines))
                  IN  IF ~rest.ok THEN rest
                      ELSE [ok |-> TRUE, val |-> <<r.val>> \o rest.val]

\* What loading a running file yields: its entries, in file order, when the
\* file exists and every line parses.
Load(f) ==
    IF f.exists THEN CollectRunning(Lines(f.data)) ELSE [ok |-> FALSE, val |-> <<>>]

\* ----------------------------------------------------------------- state
VARIABLES
    clock,        \* Utc::now(), in ticks
    runningFile,  \* the file at opt.running_file
    entriesFile,  \* the file at opt.file
    outputFile,   \* the file at the output path of export
    last,         \* the latest invocation: its arguments and what it did
    started,      \* the accounts started by a successful start and not removed
                  \* by a successful stop since
    call,         \* SpecParse: the latest call of the library, its input and result
    procs,        \* SpecConc: the invocations running at the same time
    starts        \* SpecConc: the successful starts of each account so far

vars == <<clock, runningFile, entriesFile, outputFile, last, started, call, procs, starts>>

\* One invocation at a time, and no call of the library on its own.
NoCall == [fn |-> "none"]
Sequential == call = NoCall /\ procs = <<>> /\ starts = <<>>
Idle == UNCHANGED <<call, procs, starts>>

\* Files some other program left behind: the second line of the running file
\* has no space, the second line of the entries file has no stop.
CorruptRunning == <<"T0", SP, "a", NL, "b", NL>>
CorruptEntries == <<"T0", SP, "T0", SP, "a", NL, "T0", SP, "a", NL>>

\* The files the tool may find at its first invocation: <<running, entries>>.
InitFiles ==
    { <<Absent, Absent>>, <<File(<<>>), Absent>>,
      <<File(CorruptRunning), File(CorruptEntries)>> }

\* The record of one invocation.  running0, entries0 and output0 are the files
\* as the invocation found them; position is the index stop selected (0: none);
\* entry is the Entry stop built; printed is what running wrote to stdout.
Invocation(cmd, arg, result, position, entry, printed) ==
    [cmd |-> cmd, arg |-> arg, result |-> result, now |-> clock, started0 |-> started,
     running0 |-> runningFile, entries0 |-> entriesFile, output0 |-> outputFile,
     position |-> position, entry |-> entry, printed |-> printed]

Init ==
    /\ clock = 0
    /\ \E fs \in InitFiles : runningFile = fs[1] /\ entriesFile = fs[2]
    /\ outputFile = Absent
    /\ started = {}
    /\ last = Invocation("none", None, "ok", 0, None, <<>>)
    /\ Sequential

\* Time passes between and during invocations.
Tick ==
    /\ clock < MaxClock
    /\ clock' = clock + 1
    /\ UNCHANGED <<runningFile, entriesFile, outputFile, last, started, call, procs, starts>>

\* ----------------------------------------------------------------- start
\* .lines().map(unwrap).map(from_str).map(unwrap).any(|e| e.account == account):
\* the iterator is lazy, so the lines are parsed one by one until one matches
\* ("found"), one does not parse ("panic") or there is none left ("none").
RECURSIVE AnyAccount(_, _)
AnyAccount(lines, account) ==
    IF lines = <<>> THEN "none"
    ELSE LET r == RunningEntryFromStr(lines[1])
         IN  IF ~r.ok THEN "panic"
             ELSE IF r.val.account = account THEN "found"
             ELSE AnyAccount(Tail(lines), account)

\* The duplicate check without the test of exists(): the open fails on a missing
\* running file.
StartCheckOpen(f, account) ==
    IF f.exists THEN AnyAccount(Lines(f.data), account) ELSE "panic"

\* The duplicate check of start: a missing running file has no entry.
StartCheck(f, account) ==
    IF f.exists THEN AnyAccount(Lines(f.data), account) ELSE "none"

StartResult(f, account) ==
    LET c == StartCheck(f, account)
    IN  IF c = "panic" THEN "ParseError"
        ELSE IF c = "found" THEN "DuplicateRunningEntry"
        ELSE "ok"

\* The append placed before the duplicate check.
StartWriteUnchecked(f, account, now) ==
    AppendLine(f, RunningEntryDisplay(RunningEntry(now, account)))

\* The running file start leaves behind.
StartWrite(f, account, now) ==
    IF StartResult(f, account) = "ok"
    THEN AppendLine(f, RunningEntryDisplay(RunningEntry(now, account)))
    ELSE f

Start(account) ==
    LET result == StartResult(runningFile, account)
    IN  /\ result = "ok" => Len(runningFile.data) + Len(account) + 3 <= MaxRunningLen
        /\ runningFile' = StartWrite(runningFile, account, clock)
        /\ started' = IF result = "ok" THEN started \cup {account} ELSE started
        /\ last' = Invocation("start", Some(account), result, 0, None, <<>>)
        /\ UNCHANGED <<clock, entriesFile, outputFile>>

\* ------------------------------------------------------------------ stop
\* Iterator::rposition in the place of position: the last entry of the account.
PositionLast(running_entries, account) ==
    IF \E i \in 1..Len(running_entries) : running_entries[i].account = account
    THEN CHOOSE i \in 1..Len(running_entries) :
            /\ running_entries[i].account = account
            /\ \A j \in (i + 1)..Len(running_entries) : running_entries[j].account # account
    ELSE 0

\* Iterator::position: the index of the first entry of the account, 0 for None.
Position(running_entries, account) ==
    IF \E i \in 1..Len(running_entries) : running_entries[i].account = account
    THEN CHOOSE i \in 1..Len(running_entries) :
            /\ running_entries[i].account = account
            /\ \A j \in 1..(i - 1) : running_entries[j].account # account
    ELSE 0

\* The selection of stop among the loaded entries: the result and the index.
StopSelect(running_entries, arg) ==
    IF running_entries = <<>> THEN [result |-> "NoRunningEntries", position |-> 0]
    ELSE IF arg # None
         THEN LET p == Position(running_entries, arg[1])
              IN  IF p = 0 THEN [result |-> "AccountNotFound", position |-> 0]
                  ELSE [result |-> "ok", position |-> p]
         ELSE IF Len(running_entries) # 1
              THEN [result |-> "AmbiguousStop", position |-> 0]
              ELSE [result |-> "ok", position |-> 1]

\* The outcome of stop on a running file: the result, the index selected and
\* the entries loaded.
StopPlan(f, arg) ==
    IF ~f.exists THEN [result |-> "OpenError", position |-> 0, loaded |-> <<>>]
    ELSE LET l == CollectRunning(Lines(f.data))
         IN  IF ~l.ok THEN [result |-> "ParseError", position |-> 0, loaded |-> <<>>]
             ELSE LET s == StopSelect(l.val, arg)
                  IN  [result |-> s.result, position |-> s.position, loaded |-> l.val]

\* start and stop exchanged.
StopEntrySwapped(running_entry, now) ==
    Entry(now, running_entry.start, running_entry.account, running_entry.description)

\* The start taken from the clock instead of from the running entry.
StopEntryNow(running_entry, now) ==
    Entry(now, now, running_entry.account, running_entry.description)

\* The Entry stop builds from the running entry it removed.
StopEntry(running_entry, now) ==
    Entry(running_entry.start, now, running_entry.account, running_entry.description)

\* The running file stop writes: the remaining entries joined by newlines.
StopRewrite(running_entries, position) ==
    LET remaining == RemoveAt(running_entries, position)
    IN  FsWrite(Join([i \in 1..Len(remaining) |-> RunningEntryDisplay(remaining[i])], NL))

\* The entries file stop leaves behind.
StopAppend(f, entry) == AppendLine(f, EntryDisplay(entry))

Stop(arg) ==
    LET plan == StopPlan(runningFile, arg)
    IN  IF plan.result = "ok"
        THEN LET entry == StopEntry(plan.loaded[plan.position], clock)
             IN  /\ Len(Lines(entriesFile.data)) < MaxEntries
                 /\ entriesFile' = StopAppend(entriesFile, entry)
                 /\ runningFile' = StopRewrite(plan.loaded, plan.position)
                 /\ started' = started \ {entry.account}
                 /\ last' = Invocation("stop", arg, "ok", plan.position, Some(entry), <<>>)
                 /\ UNCHANGED <<clock, outputFile>>
        ELSE /\ last' = Invocation("stop", arg, plan.result, 0, None, <<>>)
             /\ UNCHANGED <<clock, runningFile, entriesFile, outputFile, started>>

\* --------------------------------------------------------------- running
\* The lines running prints before it ends or panics on a line.
RECURSIVE PrintRunning(_)
PrintRunning(lines) ==
    IF lines = <<>> THEN <<>>
    ELSE LET r == RunningEntryFromStr(lines[1])
         IN  IF ~r.ok THEN <<>>
             ELSE <<RunningEntryDisplay(r.val)>> \o PrintRunning(Tail(lines))

Running ==
    /\ last' =
        IF ~runningFile.exists
        THEN Invocation("running", None, "OpenError", 0, None, <<>>)
        ELSE Invocation("running", None,
                 IF CollectRunning(Lines(runningFile.data)).ok THEN "ok" ELSE "ParseError",
                 0, None, PrintRunning(Lines(runningFile.data)))
    /\ UNCHANGED <<clock, runningFile, entriesFile, outputFile, started>>

\* ---------------------------------------------------------------- export
\* export without the test of the output path.
ExportResultOverwrite(out, f) ==
    IF ~f.exists THEN "OpenError"
    ELSE IF ~CollectEntries(Lines(f.data)).ok THEN "ParseError"
    ELSE "ok"

\* The outcome of export: the output path is tested first.
ExportResult(out, f) ==
    IF out.exists THEN "OutputAlreadyExists"
    ELSE IF ~f.exists THEN "OpenError"
    ELSE IF ~CollectEntries(Lines(f.data)).ok THEN "ParseError"
    ELSE "ok"

\* The text export writes: the timeclock form of every entry, newline-joined.
Timeclock(f) ==
    LET entries == CollectEntries(Lines(f.data)).val
    IN  Join([i \in 1..Len(entries) |-> FormatAsTimeclock(entries[i])], NL)

Export ==
    LET result == ExportResult(outputFile, entriesFile)
    IN  /\ outputFile' = IF result = "ok" THEN FsWrite(Timeclock(entriesFile)) ELSE outputFile
        /\ last' = Invocation("export", None, result, 0, None, <<>>)
        /\ UNCHANGED <<clock, runningFile, entriesFile, started>>

\* ------------------------------------------------------------------ spec
StopArgs == { None } \cup { Some(a) : a \in Accounts }

Next ==
    \/ Tick
    \/ \E account \in Accounts : Start(account) /\ Idle
    \/ \E arg \in StopArgs : Stop(arg) /\ Idle
    \/ Running /\ Idle
    \/ Export /\ Idle

Spec == Init /\ [][Next]_vars

\* ------------------------------------------------- stop on any running file
\* The accounts of the running files SpecStop starts from: the command line
\* accounts and one with a timestamp and a space in it.
StopAccounts == Accounts \cup { <<"b", "T0", SP, "a">> }

\* The lines of those files: account a started in two different seconds, and
\* the other accounts.
StopLines ==
    { RunningEntryDisplay(RunningEntry(0, <<"a">>)),
      RunningEntryDisplay(RunningEntry(TicksPerSec, <<"a">>)),
      RunningEntryDisplay(RunningEntry(0, <<"b">>)),
      RunningEntryDisplay(RunningEntry(TicksPerSec, <<"b", "T0", SP, "a">>)) }

\* Running files of up to MaxStopLines lines, two lines of one account included
\* (what two concurrent starts leave behind), written as stop writes them.
StopFiles ==
    { File(Join(ls, NL)) : ls \in UNION { [1..n -> StopLines] : n \in 0..MaxStopLines } }

InitStop ==
    /\ clock = 0
    /\ runningFile \in StopFiles
    /\ entriesFile = Absent
    /\ outputFile = Absent
    /\ started = {}
    /\ last = Invocation("none", None, "ok", 0, None, <<>>)
    /\ Sequential

NextStop ==
    \/ Tick
    \/ \E arg \in StopArgs \cup { Some(a) : a \in StopAccounts } : Stop(arg) /\ Idle

SpecStop == InitStop /\ [][NextStop]_vars

\* ------------------------------------------- invocations at the same time
\* Two processes, one invocation each; every file operation of an invocation is
\* one step, and the steps of the two interleave.  The files the two find are
\* files that sequential starts and stops leave behind.
Procs == {1, 2}

\* The accounts whose starts are counted: the accounts of the command lines
\* and the account of an older entry.
CountedAccounts == Accounts \cup { <<"c">> }

\* Before the two invocations: <<running file, entries file, starts so far>>.
ConcInits ==
    { \* nothing was started yet
      <<Absent, Absent, [x \in CountedAccounts |-> 0]>>,
      \* start a; start b
      <<File(<<"T0", SP, "a", NL, "T0", SP, "b", NL>>), Absent,
        [x \in CountedAccounts |-> IF x = <<"c">> THEN 0 ELSE 1]>>,
      \* start c; stop c; start c
      <<File(<<"T0", SP, "c", NL>>), File(<<"T0", SP, "T0", SP, "c", NL>>),
        [x \in CountedAccounts |-> IF x = <<"c">> THEN 2 ELSE 0]>>,
      \* start a; start c; stop a
      <<File(<<"T0", SP, "c">>), File(<<"T0", SP, "T0", SP, "a", NL>>),
        [x \in CountedAccounts |-> IF x = <<"b">> THEN 0 ELSE 1]>> }

\* A process: where it is (pc), its command line, and the locals of main.
Proc(pc, cmd, arg, now, loaded, position, entry, result) ==
    [pc |-> pc, cmd |-> cmd, arg |-> arg, now |-> now, loaded |-> loaded,
     position |-> position, entry |-> entry, result |-> result]

InitConc ==
    /\ clock = 0
    /\ \E i \in ConcInits : runningFile = i[1] /\ entriesFile = i[2] /\ starts = i[3]
    /\ outputFile = Absent
    /\ started = {}
    /\ last = Invocation("none", None, "ok", 0, None, <<>>)
    /\ call = NoCall
    /\ procs = [p \in Procs |-> Proc("idle", "none", None, 0, <<>>, 0, None, "")]

ConcFrame == UNCHANGED <<outputFile, last, started, call>>

\* start: the running entry is built first, with the clock of that moment.
InvokeStart(p, account) ==
    /\ procs[p].pc = "idle"
    /\ procs' = [procs EXCEPT ![p] =
                    Proc("check", "start", Some(account), clock, <<>>, 0, None, "")]
    /\ UNCHANGED <<clock, runningFile, entriesFile, starts>>
    /\ ConcFrame

InvokeStop(p, arg) ==
    /\ procs[p].pc = "idle"
    /\ procs' = [procs EXCEPT ![p] = Proc("read", "stop", arg, 0, <<>>, 0, None, "")]
    /\ UNCHANGED <<clock, runningFile, entriesFile, starts>>
    /\ ConcFrame

\* start: exists(), open and read for the duplicate check.
StartCheckStep(p) ==
    /\ procs[p].pc = "check"
    /\ LET result == StartResult(runningFile, procs[p].arg[1])
       IN  procs' = [procs EXCEPT ![p].pc = IF result = "ok" THEN "append" ELSE "done",
                                  ![p].result = result]
    /\ UNCHANGED <<clock, runningFile, entriesFile, starts>>
    /\ ConcFrame

\* The append of start with the duplicate check repeated in the same step.
StartAppendChecked(f, account, now) == StartWrite(f, account, now)

\* start: the append, to the file as it is by then.
StartAppend(f, account, now) ==
    AppendLine(f, RunningEntryDisplay(RunningEntry(now, account)))

StartAppendStep(p) ==
    /\ procs[p].cmd = "start" /\ procs[p].pc = "append"
    /\ runningFile' = StartAppend(runningFile, procs[p].arg[1], procs[p].now)
    /\ starts' = [starts EXCEPT ![procs[p].arg[1]] = @ + 1]
    /\ procs' = [procs EXCEPT ![p].pc = "done"]
    /\ UNCHANGED <<clock, entriesFile>>
    /\ ConcFrame

\* The rewrite of the running file placed before the append to the entries file.
StopOrderRewriteFirst(pc) ==
    CASE pc = "read" -> "truncate"
      [] pc = "truncate" -> "write"
      [] pc = "write" -> "append"
      [] pc = "append" -> "done"

\* stop: the order of its file operations: read the running file, append to
\* the entries file, then fs::write the running file (truncate, write).
StopOrder(pc) ==
    CASE pc = "read" -> "append"
      [] pc = "append" -> "truncate"
      [] pc = "truncate" -> "write"
      [] pc = "write" -> "done"

\* stop: open, read and select.
StopReadStep(p) ==
    /\ procs[p].pc = "read"
    /\ LET plan == StopPlan(runningFile, procs[p].arg)
       IN  procs' = [procs EXCEPT
                       ![p].pc = IF plan.result = "ok" THEN StopOrder("read") ELSE "done",
                       ![p].result = plan.result,
                       ![p].loaded = plan.loaded,
                       ![p].position = plan.position]
    /\ UNCHANGED <<clock, runningFile, entriesFile, starts>>
    /\ ConcFrame

\* stop: build the Entry and append it to the entries file.
StopAppendStep(p) ==
    /\ procs[p].cmd = "stop" /\ procs[p].pc = "append"
    /\ Len(Lines(entriesFile.data)) <= MaxEntries
    /\ LET entry == StopEntry(procs[p].loaded[procs[p].position], clock)
       IN  /\ entriesFile' = StopAppend(entriesFile, entry)
           /\ procs' = [procs EXCEPT ![p].pc = StopOrder("append"),
                                      ![p].now = clock,
                                      ![p].entry = Some(entry)]
    /\ UNCHANGED <<clock, runningFile, starts>>
    /\ ConcFrame

\* stop: fs::write opens the running file with truncate: it is empty.
StopTruncateStep(p) ==
    /\ procs[p].pc = "truncate"
    /\ runningFile' = File(<<>>)
    /\ procs' = [procs EXCEPT ![p].pc = StopOrder("truncate")]
    /\ UNCHANGED <<clock, entriesFile, starts>>
    /\ ConcFrame

\* The write that reads the file again and removes the entry from what it
\* holds by then.
StopWriteMerged(f, running_entries, position) ==
    LET held == Load(f).val
        remaining == SelectSeq(held, LAMBDA e : e # running_entries[position])
    IN  FsWrite(Join([i \in 1..Len(remaining) |-> RunningEntryDisplay(remaining[i])], NL))

\* stop: fs::write writes from the start of the file the remaining entries it
\* read; text another process appended since the truncate, beyond the length
\* written, stays.
StopWrite(f, running_entries, position) ==
    LET text == StopRewrite(running_entries, position).data
    IN  File(text \o SubSeq(f.data, Len(text) + 1, Len(f.data)))

StopWriteStep(p) ==
    /\ procs[p].pc = "write"
    /\ runningFile' = StopWrite(runningFile, procs[p].loaded, procs[p].position)
    /\ procs' = [procs EXCEPT ![p].pc = StopOrder("write")]
    /\ UNCHANGED <<clock, entriesFile, starts>>
    /\ ConcFrame

\* An invocation is killed between two of its file operations.
Abort(p) ==
    /\ procs[p].pc \in {"check", "append", "read", "truncate", "write"}
    /\ procs' = [procs EXCEPT ![p].pc = "aborted"]
    /\ UNCHANGED <<clock, runningFile, entriesFile, starts>>
    /\ ConcFrame

NextConc ==
    \/ Tick
    \/ \E p \in Procs, account \in Accounts : InvokeStart(p, account)
    \/ \E p \in Procs, arg \in StopArgs : InvokeStop(p, arg)
    \/ \E p \in Procs : StartCheckStep(p)
    \/ \E p \in Procs : StartAppendStep(p)
    \/ \E p \in Procs : StopReadStep(p)
    \/ \E p \in Procs : StopAppendStep(p)
    \/ \E p \in Procs : StopTruncateStep(p)
    \/ \E p \in Procs : StopWriteStep(p)
    \/ \E p \in Procs : Abort(p)

SpecConc == InitConc /\ [][NextConc]_vars

\* ------------------------------------------- the library, called on its own
\* The accounts of the records: empty, plain, with a space, with a timestamp.
ParseAccounts == { <<>>, <<"a">>, <<"a", SP, "b">>, <<"b", "T0", SP, "a">> }
Descriptions == { None, Some(<<"d">>) }

RunningEntries ==
    { [start |-> t, account |-> a, description |-> d] :
        t \in 0..MaxParseTick, a \in ParseAccounts, d \in Descriptions }

Entries ==
    { Entry(t1, t2, a, d) :
        t1 \in 0..MaxParseTick, t2 \in 0..MaxParseTick, a \in ParseAccounts,
        d \in Descriptions }

\* The lines given to the parser: every text of up to MaxLineLen characters.
ParseLines == UNION { [1..n -> {"T0", "T1", "x", SP}] : n \in 0..MaxLineLen }

InitParse ==
    /\ clock = 0
    /\ runningFile = Absent
    /\ entriesFile = Absent
    /\ outputFile = Absent
    /\ started = {}
    /\ last = Invocation("none", None, "ok", 0, None, <<>>)
    /\ call = NoCall
    /\ procs = <<>>
    /\ starts = <<>>

\* Each behaviour is one call.
\* format!("{}", r) and RunningEntry::from_str of the text.
RunningEntryRoundTrip ==
    /\ call = NoCall
    /\ \E r \in RunningEntries :
          call' = [fn |-> "RunningEntry", input |-> r, text |-> RunningEntryDisplay(r),
                   parsed |-> RunningEntryFromStr(RunningEntryDisplay(r))]
    /\ UNCHANGED <<clock, runningFile, entriesFile, outputFile, last, started, procs, starts>>

\* format!("{}", e) and Entry::from_str of the text.
EntryRoundTrip ==
    /\ call = NoCall
    /\ \E e \in Entries :
          call' = [fn |-> "Entry", input |-> e, text |-> EntryDisplay(e),
                   parsed |-> EntryFromStr(EntryDisplay(e))]
    /\ UNCHANGED <<clock, runningFile, entriesFile, outputFile, last, started, procs, starts>>

\* Entry::from_str of a line.
EntryParse ==
    /\ call = NoCall
    /\ \E line \in ParseLines :
          call' = [fn |-> "Entry::from_str", input |-> line, text |-> line,
                   parsed |-> EntryFromStr(line)]
    /\ UNCHANGED <<clock, runningFile, entriesFile, outputFile, last, started, procs, starts>>

NextParse ==
    \/ RunningEntryRoundTrip
    \/ EntryRoundTrip
    \/ EntryParse

SpecParse == InitParse /\ [][NextParse]_vars

\* ---------------------------------------------------------------- claims
\* The entries a running file loads as; a missing file has none.
Loaded(f) == IF f.exists THEN Load(f).val ELSE <<>>

\* The tick a timestamp reads back as after it was written with seconds
\* precision.
Secs(t) == (t \div TicksPerSec) * TicksPerSec

StartOk == last.cmd = "start" /\ last.result = "ok"
StopOk == last.cmd = "stop" /\ last.result = "ok"

\* C1: after any sequence of start and stop invocations that began with an
\* absent or empty running file, no two running entries loaded from the
\* running file have the same account.
C1_UniqueAccounts ==
    Load(runningFile).ok =>
        \A i, j \in 1..Len(Load(runningFile).val) :
            i # j => Load(runningFile).val[i].account # Load(runningFile).val[j].account

\* C2: after a successful start(account, now) the running file loads as the
\* sequence it loaded as before, followed by exactly one new entry of that
\* account whose start is now (at the precision of the file, seconds).
C2_StartAppendsOwnLine ==
    StartOk =>
        /\ Load(runningFile).ok
        /\ Load(runningFile).val =
              Loaded(last.running0) \o <<RunningEntry(Secs(last.now), last.arg[1])>>

\* C3: start(account) fails with the duplicate-running-entry error whenever
\* the account was started by an earlier successful start and has not been
\* stopped since.
C3_StartOfRunningFails ==
    (last.cmd = "start" /\ last.arg[1] \in last.started0) =>
        last.result = "DuplicateRunningEntry"

\* C4: stop(account) on a non-empty loaded sequence selects the first entry, in
\* file order, whose account is the given one, and fails with AccountNotFound
\* when no loaded entry has that account.
C4_StopSelectsFirstMatch ==
    LET l == Loaded(last.running0)
    IN  (last.cmd = "stop" /\ last.arg # None /\ Load(last.running0).ok /\ l # <<>>) =>
            IF \E i \in 1..Len(l) : l[i].account = last.arg[1]
            THEN /\ last.result = "ok"
                 /\ last.position \in 1..Len(l)
                 /\ l[last.position].account = last.arg[1]
                 /\ \A j \in 1..(last.position - 1) : l[j].account # last.arg[1]
            ELSE last.result = "AccountNotFound"

\* A stop that had to pass over an entry of another account and chose the
\* first of two entries of the account it was given.
C4_Witness ==
    /\ StopOk
    /\ last.arg # None
    /\ last.position = 2
    /\ Len(Loaded(last.running0)) = 3
    /\ Loaded(last.running0)[3].account = last.arg[1]

\* C5: on an existing running file, stop() without an account succeeds only
\* when exactly one interval is running (started and not stopped since); it
\* fails with NoRunningEntries when none is running and with AmbiguousStop when
\* more than one is running.
C5_StopWithoutAccount ==
    (last.cmd = "stop" /\ last.arg = None /\ last.running0.exists
        /\ last.running0.data # CorruptRunning) =>
        /\ last.result = "ok" => Cardinality(last.started0) = 1
        /\ Cardinality(last.started0) = 0 => last.result = "NoRunningEntries"
        /\ Cardinality(last.started0) > 1 => last.result = "AmbiguousStop"

\* C6: after a successful stop the running file loads as the sequence it
\* loaded as before with the selected entry deleted, the other entries unchanged
\* and in their order; when the selected entry was the only one, the running
\* file is empty.
C6_StopRemovesSelected ==
    StopOk =>
        LET before == Loaded(last.running0)
            after == Loaded(runningFile)
        IN  /\ runningFile.exists /\ Load(runningFile).ok
            /\ Len(after) = Len(before) - 1
            /\ \A i \in 1..Len(after) :
                  after[i] = IF i < last.position THEN before[i] ELSE before[i + 1]
            /\ Len(before) = 1 => runningFile.data = <<>>

\* A stop that removed the first of three entries.
C6_Witness ==
    /\ StopOk
    /\ last.position = 1
    /\ Len(Loaded(last.running0)) = 3
    /\ Len(Loaded(runningFile)) = 2

\* C7: from an absent or empty running file, start(a) followed immediately by
\* stop (of a, or without an account) both succeed, the entries file gains
\* exactly one Entry, whose account is a and whose stop >= start, and the running
\* file is empty afterwards.
C7_StartThenStop ==
    [][ (last.cmd = "start" /\ last.running0.data = <<>>) =>
            /\ last.result = "ok"
            /\ (last'.cmd = "stop" /\ last'.arg \in {None, last.arg}) =>
                  LET before == CollectEntries(Lines(last.entries0.data))
                      after == CollectEntries(Lines(entriesFile'.data))
                  IN  /\ last'.result = "ok"
                      /\ before.ok /\ after.ok
                      /\ Len(after.val) = Len(before.val) + 1
                      /\ SubSeq(after.val, 1, Len(before.val)) = before.val
                      /\ after.val[Len(after.val)].account = last.arg[1]
                      /\ after.val[Len(after.val)].stop >= after.val[Len(after.val)].start
                      /\ runningFile' = File(<<>>) ]_vars

\* The first stop ever, a second after the one start that preceded it.
C7_Witness ==
    /\ StopOk
    /\ last.entries0 = Absent
    /\ Len(Lines(last.running0.data)) = 1
    /\ runningFile = File(<<>>)
    /\ last.entry[1].stop >= last.entry[1].start + TicksPerSec

\* C8: the Entry a successful stop appends to the entries file has the start
\* and the account of the running entry the stop removed and its stop is the
\* clock reading of that stop; every entry of the entries file has
\* stop >= start.
C8_EntryOfStop ==
    StopOk =>
        LET removed == Loaded(last.running0)[last.position]
            entries == CollectEntries(Lines(entriesFile.data))
            appended == entries.val[Len(entries.val)]
        IN  /\ last.entry[1].start = removed.start
            /\ last.entry[1].account = removed.account
            /\ last.entry[1].stop = last.now
            /\ entries.ok
            /\ Len(entries.val) = Len(Lines(last.entries0.data)) + 1
            /\ appended.start = removed.start
            /\ appended.account = removed.account
            /\ appended.stop = Secs(last.now)
            /\ \A i \in 1..Len(entries.val) : entries.val[i].stop >= entries.val[i].start

\* A stop, in a later second than the start, of an entry that was not the
\* first of the running file.
C8_Witness ==
    /\ StopOk
    /\ last.position = 2
    /\ last.entry[1].stop >= last.entry[1].start + TicksPerSec
    /\ Len(Lines(entriesFile.data)) = 2

\* C9: the entries file is append-only: no invocation of export, running,
\* start or stop changes, removes or reorders the lines it holds; only a
\* successful stop adds to it, and it adds exactly one line at the end.
C9_AppendOnly ==
    [][ \/ entriesFile' = entriesFile
        \/ /\ last'.cmd = "stop" /\ last'.result = "ok"
           /\ entriesFile'.exists
           /\ Len(Lines(entriesFile'.data)) = Len(Lines(entriesFile.data)) + 1
           /\ SubSeq(Lines(entriesFile'.data), 1, Len(Lines(entriesFile.data)))
                 = Lines(entriesFile.data)
           /\ SubSeq(entriesFile'.data, 1, Len(entriesFile.data)) = entriesFile.data ]_vars

\* An entries file of two lines that an export has read.
C9_Witness ==
    /\ Len(Lines(entriesFile.data)) = 2
    /\ outputFile.exists
    /\ StopOk
    /\ last.entries0.exists

Failures ==
    { "DuplicateRunningEntry", "NoRunningEntries", "AccountNotFound", "AmbiguousStop",
      "ParseError" }

\* C10: when start fails with DuplicateRunningEntry, stop fails with
\* NoRunningEntries, AccountNotFound or AmbiguousStop, or any command fails on
\* a line that does not parse, the running file and the entries file are as
\* they were before the command.
C10_NoPartialSuccess ==
    last.result \in Failures =>
        /\ runningFile = last.running0
        /\ entriesFile = last.entries0

\* A start refused as a duplicate of an entry an earlier start wrote, when both
\* files hold lines.
C10_Witness ==
    /\ last.cmd = "start"
    /\ last.result = "DuplicateRunningEntry"
    /\ last.arg[1] \in last.started0
    /\ Len(Lines(runningFile.data)) = 2
    /\ Len(Lines(entriesFile.data)) = 1

\* C11: when the running file does not exist, start treats it as holding no
\* entry, succeeds and creates it holding exactly the new entry; stop and
\* running fail with the file-open error (not NoRunningEntries), do not create
\* the running file and leave the entries file alone.
C11_AbsentRunningFile ==
    ~last.running0.exists =>
        /\ last.cmd = "start" =>
              /\ last.result = "ok"
              /\ runningFile.exists
              /\ runningFile.data = ToRfc3339(last.now) \o <<SP>> \o last.arg[1] \o <<NL>>
              /\ Load(runningFile).ok
              /\ Load(runningFile).val = <<RunningEntry(Secs(last.now), last.arg[1])>>
        /\ last.cmd \in {"stop", "running"} =>
              /\ last.result = "OpenError"
              /\ ~runningFile.exists
              /\ entriesFile = last.entries0

\* A start that created the running file, in the second half of a second.
C11_Witness ==
    /\ last.cmd = "start"
    /\ ~last.running0.exists
    /\ runningFile.exists
    /\ last.now # Secs(last.now)

\* C12: export never overwrites: it fails whenever a file exists at the
\* output path, and after every failed export (existing output, entries file
\* that cannot be opened, line that does not parse) the output path is as it
\* was.
C12_ExportNeverOverwrites ==
    last.cmd = "export" =>
        /\ last.output0.exists => last.result # "ok"
        /\ last.result # "ok" => outputFile = last.output0
        /\ last.result = "ok" => outputFile.exists

\* An export refused because of an earlier export's output, which no longer is
\* what the entries file would export as.
C12_Witness ==
    /\ last.cmd = "export"
    /\ last.result = "OutputAlreadyExists"
    /\ CollectEntries(Lines(entriesFile.data)).ok
    /\ outputFile.data # Timeclock(entriesFile)

\* C13 as stated: for every RunningEntry r, of any start, account and
\* description, parsing the serialization of r yields r.
C13_RunningEntryRoundTrip ==
    call.fn = "RunningEntry" => call.parsed.ok /\ call.parsed.val = call.input

\* C13 as amended: for every RunningEntry r whose start is a whole second and
\* whose description is None, of any account, parsing the serialization of r
\* yields r.
C13_RunningEntryRoundTripSecs ==
    (call.fn = "RunningEntry" /\ call.input.start = Secs(call.input.start)
        /\ call.input.description = None) =>
        call.parsed.ok /\ call.parsed.val = call.input

\* The round trip of a running entry of a later second whose account has a
\* space.
C13_Witness ==
    /\ call.fn = "RunningEntry"
    /\ call.input.start = TicksPerSec
    /\ call.input.description = None
    /\ call.input.account = <<"a", SP, "b">>
    /\ call.parsed.ok

\* C14: for every Entry e whose timestamps the serialization can represent
\* (whole seconds), parsing the serialization of e yields an Entry with the
\* start, the stop and the account of e, also when the account has spaces.
C14_EntryRoundTrip ==
    (call.fn = "Entry" /\ call.input.start = Secs(call.input.start)
        /\ call.input.stop = Secs(call.input.stop)) =>
        /\ call.parsed.ok
        /\ call.parsed.val.start = call.input.start
        /\ call.parsed.val.stop = call.input.stop
        /\ call.parsed.val.account = call.input.account

\* The round trip of an entry with a description, an account with a space and
\* a stop a second after its start.
C14_Witness ==
    /\ call.fn = "Entry"
    /\ call.input.start = 0
    /\ call.input.stop = TicksPerSec
    /\ call.input.account = <<"a", SP, "b">>
    /\ call.input.description # None
    /\ call.parsed.ok

\* The positions of the spaces of a line, in order.
Spaces(line) == { i \in 1..Len(line) : line[i] = SP }
FirstSpace(line) == CHOOSE i \in Spaces(line) : \A j \in Spaces(line) : i <= j
SecondSpace(line) ==
    CHOOSE i \in Spaces(line) \ {FirstSpace(line)} :
        \A j \in Spaces(line) \ {FirstSpace(line)} : i <= j
IsTimestamp(text) == Len(text) = 1 /\ text[1] \in { TsTokens[i] : i \in 1..Len(TsTokens) }

\* C15: Entry::from_str fails with MissingStart on a line without a space,
\* with MissingStop on a line with one space only, with DateParseError on a
\* line with both separators whose start or stop is no RFC 3339 timestamp; every
\* other line parses, its account being everything after the second space.
C15_EntryParseErrors ==
    call.fn = "Entry::from_str" =>
        LET line == call.input
            n == Cardinality(Spaces(line))
        IN  IF n = 0 THEN ~call.parsed.ok /\ call.parsed.err = "MissingStart"
            ELSE IF n = 1 THEN ~call.parsed.ok /\ call.parsed.err = "MissingStop"
            ELSE LET start == SubSeq(line, 1, FirstSpace(line) - 1)
                     stop == SubSeq(line, FirstSpace(line) + 1, SecondSpace(line) - 1)
                 IN  IF ~IsTimestamp(start) \/ ~IsTimestamp(stop)
                     THEN ~call.parsed.ok /\ call.parsed.err = "DateParseError"
                     ELSE /\ call.parsed.ok
                          /\ call.parsed.val.account
                                = SubSeq(line, SecondSpace(line) + 1, Len(line))
                          /\ ToRfc3339(call.parsed.val.start) = start
                          /\ ToRfc3339(call.parsed.val.stop) = stop

\* A line of one space whose first token is no timestamp: MissingStop, not
\* DateParseError.
C15_Witness ==
    /\ call.fn = "Entry::from_str"
    /\ call.input = <<"x", SP, "T0">>
    /\ call.parsed.err = "MissingStop"

\* The two invocations are over, neither was killed.
BothDone == \A p \in Procs : procs[p].pc = "done"

\* The running entry a start process writes, as the file holds it.
StartedEntry(p) == RunningEntry(Secs(procs[p].now), procs[p].arg[1])

\* The accounts of the entries the running file held before the two.
PriorAccounts == { Loaded(last.running0)[i].account : i \in 1..Len(Loaded(last.running0)) }

\* C16: two starts of different accounts, neither running, whose check and
\* append steps interleave in any order, both succeed, and the running file
\* then loads as the entries it held before and the two new entries.
C16_ConcurrentStarts ==
    (/\ BothDone
     /\ \A p \in Procs : procs[p].cmd = "start" /\ procs[p].arg[1] \notin PriorAccounts
     /\ procs[1].arg # procs[2].arg) =>
        /\ \A p \in Procs : procs[p].result = "ok"
        /\ Load(runningFile).ok
        /\ Load(runningFile).val \in
              { Loaded(last.running0) \o <<StartedEntry(1), StartedEntry(2)>>,
                Loaded(last.running0) \o <<StartedEntry(2), StartedEntry(1)>> }

\* The entries a stop process read, less the one it selected, as text.
RemainingText(p) ==
    LET rest == [i \in 1..(Len(procs[p].loaded) - 1) |->
                    IF i < procs[p].position THEN procs[p].loaded[i]
                    ELSE procs[p].loaded[i + 1]]
    IN  Join([i \in 1..Len(rest) |-> RunningEntryDisplay(rest[i])], NL)

\* C17: an invocation that reads and then writes the running file does not
\* merge: what a stop writes is what it read less the entry it selected,
\* whatever the file holds by then (last writer wins).  C17_Witness is the
\* interleaving the claim says there is.
C17_LastWriterWins ==
    [][ \A p \in Procs :
          (procs[p].pc = "write" /\ procs'[p].pc \notin {"write", "aborted"}) =>
              /\ Len(runningFile'.data) >= Len(RemainingText(p))
              /\ SubSeq(runningFile'.data, 1, Len(RemainingText(p))) = RemainingText(p) ]_vars

\* Both invocations are over and an update is lost: the entry one stop wrote to
\* the entries file is in the running file again, put back by the other stop,
\* or the entry a start appended is not in the running file.
C17_Witness ==
    /\ BothDone
    /\ \A p \in Procs : procs[p].result = "ok"
    /\ Load(runningFile).ok
    /\ \E p \in Procs :
          /\ procs[p].cmd = "stop"
          /\ procs[3 - p].cmd = "stop"
          /\ procs[p].arg # procs[3 - p].arg
          /\ procs[p].entry # None
          /\ \E i \in 1..Len(Loaded(runningFile)) :
                /\ Loaded(runningFile)[i].account = procs[p].entry[1].account
                /\ Loaded(runningFile)[i].start = procs[p].entry[1].start

\* C18: the check and the append of start are two file operations: the append
\* adds the line to the file as it is by then, without a second check.
\* C18_Witness is the state the claim says two starts of one account reach.
C18_AppendWithoutCheck ==
    [][ \A p \in Procs :
          (procs[p].cmd = "start" /\ procs[p].pc = "append" /\ procs'[p].pc = "done") =>
              runningFile'.data =
                  runningFile.data \o ToRfc3339(procs[p].now) \o <<SP>> \o procs[p].arg[1]
                      \o <<NL>> ]_vars

\* Two starts of one account, on a running file that did not exist, both
\* succeeded, and the running file holds two entries of that account.
C18_Witness ==
    /\ BothDone
    /\ ~last.running0.exists
    /\ \A p \in Procs : procs[p].cmd = "start" /\ procs[p].result = "ok"
    /\ procs[1].arg = procs[2].arg
    /\ Load(runningFile).ok
    /\ Len(Loaded(runningFile)) = 2
    /\ Loaded(runningFile)[1].account = procs[1].arg[1]
    /\ Loaded(runningFile)[2].account = procs[1].arg[1]

\* The running entry a stop process selected (once it has).
Selected(p) == procs[p].loaded[procs[p].position]

InRunningFile(e) ==
    /\ Load(runningFile).ok
    /\ \E i \in 1..Len(Loaded(runningFile)) : Loaded(runningFile)[i] = e

InEntriesFile(e) ==
    \E i \in 1..Len(Lines(entriesFile.data)) :
        LET r == EntryFromStr(Lines(entriesFile.data)[i])
        IN  r.ok /\ r.val.start = e.start /\ r.val.account = e.account

\* C19: in a stop that runs alone, at every state after the selection (between
\* its file operations, after them, or killed anywhere) the interval it stops
\* is in the running file or in the entries file: the Entry is appended before
\* the running file is rewritten.
C19_NeverInNeither ==
    \A p \in Procs :
        (procs[p].cmd = "stop" /\ procs[p].position > 0 /\ procs[3 - p].pc = "idle") =>
            InRunningFile(Selected(p)) \/ InEntriesFile(Selected(p))

\* A stop killed between its two writes: the interval is in both files.
C19_Witness ==
    \E p \in Procs :
        /\ procs[p].cmd = "stop" /\ procs[p].pc = "aborted"
        /\ procs[3 - p].pc = "idle"
        /\ procs[p].entry # None
        /\ InRunningFile(Selected(p))
        /\ InEntriesFile(Selected(p))

\* The lines of the entries file that are an Entry of the account.
EntriesOf(account) ==
    { i \in 1..Len(Lines(entriesFile.data)) :
        LET r == EntryFromStr(Lines(entriesFile.data)[i])
        IN  r.ok /\ r.val.account = account }

\* C20: under any interleaving of starts and stops, the entries file never
\* holds more entries of an account than there were successful starts of that
\* account.
C20_AtMostOneEntryPerStart ==
    \A account \in CountedAccounts : Cardinality(EntriesOf(account)) <= starts[account]

====
